---- MODULE Spec2Model ----
(***************************************************************************)
(* Model of the NBA feature-engineering and model-lifecycle pipeline:      *)
(* team identity resolution, the game/odds join, rolling form, the         *)
(* train/test split, the artifact store with its selectors, the inference  *)
(* service, the command-line predictors, the moneyline conversion and the  *)
(* writers of the derived tables.                                          *)
(*                                                                         *)
(* Six specifications share the module:                                    *)
(*   SpecResolve  one raw team token pushed through a trainer's resolver   *)
(*   Spec         one trainer run: load_data, engineer_features, split     *)
(*   SpecStore    training runs saving artifacts, and the loaders          *)
(*   SpecScoring  the inference service's startup and requests, and one    *)
(*                run of a command-line predictor                          *)
(*   SpecOdds     one price pushed through american_odds_to_prob           *)
(*   SpecTables   the writers of the derived tables and the rating         *)
(*                backfill of import-elo-complete                          *)
(***************************************************************************)
EXTENDS Integers, Sequences, FiniteSets, TLC

VARIABLES
    raw_token,      \* the raw team token handed to a resolver
    resolver,       \* which trainer's resolver was applied ("none" before)
    resolved,       \* outputs of the successive resolver applications
    games,          \* table github_games, in ORDER BY date order
    odds,           \* table odds_historical
    trainer,        \* "V1" | "V2" | "V3" | "V3_2025" once a run has started
    pc,             \* position of the trainer run
    merged,         \* the merged and feature-engineered frame
    model_data,     \* the frame handed to train_model
    train_data,     \* rows of the training part of the split
    test_data,      \* rows of the test part of the split
    store,          \* models directory: path -> [mtime, run]
    now,            \* wall clock, in seconds (datetime.now())
    mclock,         \* file-system modification clock
    runs,           \* train_model calls: [ver, fam, pc, ts]
    MODELS,         \* python-service registry: family -> loaded model file
    SCALERS,        \* python-service registry: family -> loaded scaler file
    predictor,      \* NBAPredictorV3 instance
    bench,          \* benchmark-python-v3: what load_model_and_scaler
                    \* returned and the 'model_file' main() reported
    svc,            \* python-service process: [pc, todo] of its startup
    request,        \* the request the service handled last
    response,       \* the answer it gave to that request
    price,          \* a moneyline price as american_odds_to_prob receives it
    implied,        \* what american_odds_to_prob returned for it
    cli,            \* the CLI predictor that ran: [ver, model_type]
    upcoming,       \* get_upcoming_games(): one row per upcoming game
    X,              \* prepare_features(): the feature rows of the games
    scored,         \* what the CLI predictor's predict() produced
    db,             \* derived tables: nba_api_games, predictions,
                    \* predictions_v2, elo_staging
    saved           \* the script run that wrote last: [n, op, key, batch, before]

vars == <<raw_token, resolver, resolved, games, odds, trainer, pc, merged,
          model_data, train_data, test_data, store, now, mclock, runs,
          MODELS, SCALERS, predictor, bench, svc, request, response,
          price, implied, cli, upcoming, X, scored, db, saved>>

resolveVars == <<raw_token, resolver, resolved>>
pipeVars == <<games, odds, trainer, pc, merged, model_data, train_data, test_data>>
storeVars == <<store, now, mclock, runs, MODELS, SCALERS, predictor, bench>>
serviceVars == <<svc, request, response>>
oddsVars == <<price, implied>>
cliVars == <<cli, upcoming, X, scored>>
tableVars == <<db, saved>>

(***************************************************************************)
(* Strings.  A string is modelled by its case-folded, trimmed text, the    *)
(* case form it is written in and whether it carries surrounding           *)
(* whitespace; upper(), lower() and strip() act on that representation.    *)
(* Every text used below contains at least one cased letter.               *)
(***************************************************************************)
Str(text, form, padded) == [s |-> text, cs |-> form, ws |-> padded]

\* 'LAL' as it is written in the source: upper case, no padding
Abbr(text) == Str(text, "upper", FALSE)

\* 'Los Angeles Lakers' as it is written in the source: capitalised words
Name(text) == Str(text, "mixed", FALSE)

Upper(t) == [t EXCEPT !.cs = "upper"]

Lower(t) == [t EXCEPT !.cs = "lower"]

Strip(t) == [t EXCEPT !.ws = FALSE]

\* pandas NaN / None in a column of strings
NaNStr == [s |-> "", cs |-> "nan", ws |-> FALSE]

\* pandas NaN / None in a numeric column
NaN == -9999

(***************************************************************************)
(* The alias table.  TEAM_MAPPING is the dict literal in source order; a   *)
(* Python dict keeps one entry per key, the last one written.              *)
(***************************************************************************)
TEAM_MAPPING == <<
    <<Abbr("atl"), Name("atlanta hawks")>>,
    <<Abbr("bos"), Name("boston celtics")>>,
    <<Abbr("brk"), Name("brooklyn nets")>>,
    <<Abbr("bkn"), Name("brooklyn nets")>>,
    <<Abbr("cha"), Name("charlotte hornets")>>,
    <<Abbr("chi"), Name("chicago bulls")>>,
    <<Abbr("cho"), Name("charlotte hornets")>>,
    <<Abbr("cle"), Name("cleveland cavaliers")>>,
    <<Abbr("dal"), Name("dallas mavericks")>>,
    <<Abbr("den"), Name("denver nuggets")>>,
    <<Abbr("det"), Name("detroit pistons")>>,
    <<Abbr("gsw"), Name("golden state warriors")>>,
    <<Abbr("hou"), Name("houston rockets")>>,
    <<Abbr("ind"), Name("indiana pacers")>>,
    <<Abbr("lac"), Name("la clippers")>>,
    <<Abbr("lal"), Name("los angeles lakers")>>,
    <<Abbr("mem"), Name("memphis grizzlies")>>,
    <<Abbr("mia"), Name("miami heat")>>,
    <<Abbr("mil"), Name("milwaukee bucks")>>,
    <<Abbr("min"), Name("minnesota timberwolves")>>,
    <<Abbr("nop"), Name("new orleans pelicans")>>,
    <<Abbr("nyk"), Name("new york knicks")>>,
    <<Abbr("nyn"), Name("new jersey nets")>>,
    <<Abbr("okc"), Name("oklahoma city thunder")>>,
    <<Abbr("orl"), Name("orlando magic")>>,
    <<Abbr("phi"), Name("philadelphia 76ers")>>,
    <<Abbr("pho"), Name("phoenix suns")>>,
    <<Abbr("phx"), Name("phoenix suns")>>,
    <<Abbr("por"), Name("portland trail blazers")>>,
    <<Abbr("sac"), Name("sacramento kings")>>,
    <<Abbr("sas"), Name("san antonio spurs")>>,
    <<Abbr("tor"), Name("toronto raptors")>>,
    <<Abbr("uta"), Name("utah jazz")>>,
    <<Abbr("was"), Name("washington wizards")>>,
    <<Abbr("njn"), Name("new jersey nets")>>,
    <<Abbr("noh"), Name("new orleans hornets")>>,
    <<Abbr("cha"), Name("charlotte bobcats")>>,
    <<Abbr("sea"), Name("seattle supersonics")>>,
    <<Abbr("van"), Name("vancouver grizzlies")>>,
    <<Abbr("kck"), Name("kansas city kings")>>,
    <<Abbr("sdc"), Name("san diego clippers")>> >>

\* TEAM_MAP of import-elo-complete.py, the dict literal in source order
TEAM_MAP == <<
    <<Abbr("atl"), Name("atlanta hawks")>>,
    <<Abbr("bos"), Name("boston celtics")>>,
    <<Abbr("brk"), Name("brooklyn nets")>>,
    <<Abbr("bkn"), Name("brooklyn nets")>>,
    <<Abbr("cha"), Name("charlotte hornets")>>,
    <<Abbr("chi"), Name("chicago bulls")>>,
    <<Abbr("cho"), Name("charlotte hornets")>>,
    <<Abbr("cle"), Name("cleveland cavaliers")>>,
    <<Abbr("dal"), Name("dallas mavericks")>>,
    <<Abbr("den"), Name("denver nuggets")>>,
    <<Abbr("det"), Name("detroit pistons")>>,
    <<Abbr("gsw"), Name("golden state warriors")>>,
    <<Abbr("hou"), Name("houston rockets")>>,
    <<Abbr("ind"), Name("indiana pacers")>>,
    <<Abbr("lac"), Name("la clippers")>>,
    <<Abbr("lal"), Name("los angeles lakers")>>,
    <<Abbr("mem"), Name("memphis grizzlies")>>,
    <<Abbr("mia"), Name("miami heat")>>,
    <<Abbr("mil"), Name("milwaukee bucks")>>,
    <<Abbr("min"), Name("minnesota timberwolves")>>,
    <<Abbr("nop"), Name("new orleans pelicans")>>,
    <<Abbr("nyk"), Name("new york knicks")>>,
    <<Abbr("nyn"), Name("new jersey nets")>>,
    <<Abbr("okc"), Name("oklahoma city thunder")>>,
    <<Abbr("orl"), Name("orlando magic")>>,
    <<Abbr("phi"), Name("philadelphia 76ers")>>,
    <<Abbr("pho"), Name("phoenix suns")>>,
    <<Abbr("phx"), Name("phoenix suns")>>,
    <<Abbr("por"), Name("portland trail blazers")>>,
    <<Abbr("sac"), Name("sacramento kings")>>,
    <<Abbr("sas"), Name("san antonio spurs")>>,
    <<Abbr("tor"), Name("toronto raptors")>>,
    <<Abbr("uta"), Name("utah jazz")>>,
    <<Abbr("was"), Name("washington wizards")>>,
    <<Abbr("njn"), Name("new jersey nets")>>,
    <<Abbr("noh"), Name("new orleans hornets")>>,
    <<Abbr("sea"), Name("seattle supersonics")>>,
    <<Abbr("van"), Name("vancouver grizzlies")>>,
    <<Abbr("kck"), Name("kansas city kings")>>,
    <<Abbr("sdc"), Name("san diego clippers")>>,
    <<Abbr("chs"), Name("chicago stags")>>,
    <<Abbr("stb"), Name("st. louis bombers")>>,
    <<Abbr("pro"), Name("providence steamrollers")>>,
    <<Abbr("pit"), Name("pittsburgh ironmen")>>,
    <<Abbr("dtf"), Name("detroit falcons")>>,
    <<Abbr("wsc"), Name("washington capitols")>>,
    <<Abbr("trh"), Name("toronto huskies")>> >>

RECURSIVE DictOf(_)
\* a dict built from a sequence of (key, value) pairs: later pairs win
DictOf(pairs) ==
    IF pairs = << >> THEN << >>
    ELSE LET n == Len(pairs)
             rest == DictOf(SubSeq(pairs, 1, n - 1))
         IN  (pairs[n][1] :> pairs[n][2]) @@ rest

\* TEAM_MAP as the dict the backfill script holds
elo_team_map == DictOf(TEAM_MAP)

\* rows of table team_mapping after create_mapping_table()
team_mapping_table == DictOf(TEAM_MAPPING)

\* team_map with the values upper-cased instead of lower-cased
team_map_UpperValues ==
    DictOf([i \in 1..Len(TEAM_MAPPING) |->
              <<Upper(TEAM_MAPPING[i][1]),
                Upper(team_mapping_table[TEAM_MAPPING[i][1]])>>])

\* dict(zip(abbreviation.str.upper(), full_name.str.lower()))
team_map ==
    DictOf([i \in 1..Len(TEAM_MAPPING) |->
              <<Upper(TEAM_MAPPING[i][1]),
                Lower(team_mapping_table[TEAM_MAPPING[i][1]])>>])

\* map_team_name of the V3 trainer
map_team_name(team) ==
    LET t == Upper(Strip(team))
    IN  IF t \in DOMAIN team_map THEN team_map[t] ELSE Strip(Lower(t))

\* Series.map(team_map) of the V1 and V2 trainers: NaN for a key not in the dict
series_map(team) ==
    IF team \in DOMAIN team_map THEN team_map[team] ELSE NaNStr

\* .str.strip().str.lower() applied to the odds team columns
str_clean(team) ==
    IF team = NaNStr THEN NaNStr ELSE Lower(Strip(team))

\* the resolver each trainer applies to the game-side team columns
ResolveGameTeam(ver, team) ==
    IF ver \in {"V1", "V2"} THEN series_map(team) ELSE map_team_name(team)

(***************************************************************************)
(* Idle values of the groups of variables: a specification that           *)
(* exercises one component leaves the others at these values.              *)
(***************************************************************************)
ResolveIdle ==
    /\ raw_token = NaNStr
    /\ resolver = "none"
    /\ resolved = << >>

PipeIdle ==
    /\ games = << >>
    /\ odds = << >>
    /\ trainer = "none"
    /\ pc = "idle"
    /\ merged = << >>
    /\ model_data = << >>
    /\ train_data = << >>
    /\ test_data = << >>

StoreIdle ==
    /\ store = << >>
    /\ now = 1
    /\ mclock = 0
    /\ runs = << >>
    /\ MODELS = << >>
    /\ SCALERS = << >>
    /\ predictor = [model_type |-> "2025", status |-> "new",
                    model |-> << >>, scaler |-> << >>]
    /\ bench = [status |-> "new", model |-> << >>, scaler |-> << >>,
                model_file |-> << >>]

ServiceIdle ==
    /\ svc = [pc |-> "off", todo |-> << >>]
    /\ request = << >>
    /\ response = << >>

OddsIdle ==
    /\ price = << >>
    /\ implied = << >>

CliIdle ==
    /\ cli = [ver |-> "none", model_type |-> ""]
    /\ upcoming = << >>
    /\ X = << >>
    /\ scored = << >>

\* the derived tables before any script wrote to them
TablesIdle ==
    /\ db = [nba_api_games |-> << >>, predictions |-> << >>,
             predictions_v2 |-> << >>, elo_staging |-> << >>]
    /\ saved = [n |-> 0, op |-> "none", key |-> 0, batch |-> << >>,
                before |-> << >>]

(***************************************************************************)
(* SpecResolve: a raw token is resolved by one trainer's resolver, and the *)
(* canonical string it returned may be resolved again.                     *)
(***************************************************************************)
\* texts no alias and no full name of the table has
UnknownTexts == {"xyz", "st. louis hawks"}

TokenTexts ==
    {TEAM_MAPPING[i][1].s : i \in 1..Len(TEAM_MAPPING)}
        \cup {TEAM_MAPPING[i][2].s : i \in 1..Len(TEAM_MAPPING)}
        \cup UnknownTexts

Resolvers == {"V1", "V2", "V3", "V3_2025"}

InitResolve ==
    /\ raw_token \in {Str(t, f, p) : t \in TokenTexts,
                                       f \in {"lower", "upper", "mixed"},
                                       p \in BOOLEAN}
    /\ resolver = "none"
    /\ resolved = << >>
    /\ PipeIdle
    /\ StoreIdle
    /\ ServiceIdle
    /\ OddsIdle
    /\ CliIdle
    /\ TablesIdle

\* games_df['home_team'] resolved as trainer ver does it
Resolve(ver) ==
    /\ resolver = "none"
    /\ resolver' = ver
    /\ resolved' = <<ResolveGameTeam(ver, raw_token)>>
    /\ UNCHANGED <<raw_token, pipeVars, storeVars, serviceVars, oddsVars, cliVars, tableVars>>

ResolveV1 == Resolve("V1")

ResolveV2 == Resolve("V2")

ResolveV3 == Resolve("V3")

ResolveV3_2025 == Resolve("V3_2025")

\* the canonical string just returned is handed to the same resolver again
ResolveAgain ==
    /\ resolver # "none"
    /\ Len(resolved) = 1
    /\ resolved' = Append(resolved, ResolveGameTeam(resolver, resolved[1]))
    /\ UNCHANGED <<raw_token, resolver, pipeVars, storeVars, serviceVars, oddsVars, cliVars, tableVars>>

NextResolve ==
    \/ ResolveV1
    \/ ResolveV2
    \/ ResolveV3
    \/ ResolveV3_2025
    \/ ResolveAgain

SpecResolve == InitResolve /\ [][NextResolve]_vars

\* the identity the alias table gives a token: the mapped full name when the
\* trimmed, upper-cased token is an alias, else the trimmed, case-folded token
Canonical(team) ==
    IF Upper(Strip(team)) \in DOMAIN team_map
    THEN team_map[Upper(Strip(team))]
    ELSE Lower(Strip(team))

\* C5: team resolution is total in every trainer (V1, V2, V3): the resolver
\* returns the mapped canonical name for a token of the alias table, the
\* trimmed case-folded token otherwise, and never a missing identity.
C5_ResolutionTotal ==
    resolver # "none" =>
        /\ resolved[1] # NaNStr
        /\ resolved[1] = Canonical(raw_token)

\* C6: map_team_name is idempotent over the alias table built by
\* create-team-mapping: resolving the resolved string gives the same string.
C6_Idempotent ==
    (resolver \in {"V3", "V3_2025"} /\ Len(resolved) = 2) =>
        resolved[2] = resolved[1]

\* an alias of the table was resolved to its full name and resolved again
C6_Witness ==
    /\ resolver = "V3"
    /\ Len(resolved) = 2
    /\ raw_token = Str("lal", "mixed", TRUE)
    /\ resolved[1] = Str("los angeles lakers", "lower", FALSE)

\* an unknown padded token was resolved twice
C6_WitnessUnknown ==
    /\ resolver = "V3_2025"
    /\ Len(resolved) = 2
    /\ raw_token = Str("xyz", "upper", TRUE)
    /\ resolved[1] = Str("xyz", "lower", FALSE)

(***************************************************************************)
(* Moneyline prices.  Column ml_home / ml_away of odds_historical is text  *)
(* (the importer stores str(value)); after a left join without a match the *)
(* cell is NaN.  A price is the text of a finite number, some other text,  *)
(* or missing.  Implied probabilities are exact fractions num / den; the   *)
(* float NaN is the fraction 0 / 0.                                        *)
(***************************************************************************)
\* bound on the magnitude of the numeric prices
MaxPrice == 200

\* NaN or None in the price column
MissingPrice == [kind |-> "missing"]

\* the text of the finite number v: '-150', '130.0'
Num(v) == [kind |-> "number", value |-> v]

\* any other text: '', 'None', 'N/A', 'nan', 'inf'
Text(w) == [kind |-> "text", text |-> w]

\* the cells of a price column; the texts are not the text of a finite
\* number, and float() accepts the last three
Prices ==
    {MissingPrice} \cup {Num(v) : v \in -MaxPrice..MaxPrice}
        \cup {Text(w) : w \in {"", "None", "N/A", "nan", "inf", "-inf"}}

Frac(n, d) == [num |-> n, den |-> d]

NaNFrac == Frac(0, 0)

\* a = b as numbers; NaN equals nothing
FracEq(a, b) == a.den # 0 /\ b.den # 0 /\ a.num * b.den = b.num * a.den

\* a < b as numbers; denominators are positive unless NaN
FracLess(a, b) == a.den # 0 /\ b.den # 0 /\ a.num * b.den < b.num * a.den

\* a + b
FracAdd(a, b) == Frac(a.num * b.den + b.num * a.den, a.den * b.den)

\* abs(x)
abs(x) == IF x < 0 THEN -x ELSE x

\* pd.isna(odds)
isna(ml) == ml.kind = "missing"

\* float(odds) raises ValueError
float_raises(ml) == ml.kind = "text" /\ ml.text \notin {"nan", "inf", "-inf"}

\* american_odds_to_prob with abs() left out of the numerator
american_odds_to_prob_SignedNumerator(ml) ==
    IF isna(ml) THEN Frac(1, 2)
    ELSE IF float_raises(ml) THEN Frac(1, 2)
    ELSE IF ml.kind = "text"
         THEN IF ml.text = "inf" THEN Frac(0, 1) ELSE NaNFrac
    ELSE IF ml.value > 0 THEN Frac(100, ml.value + 100)
    ELSE Frac(ml.value, abs(ml.value) + 100)

\* american_odds_to_prob(odds) of the trainers.  float('nan') > 0 is False
\* and abs(nan) / (abs(nan) + 100) is nan; 100 / (inf + 100) is 0.0;
\* inf / (inf + 100) is nan.
american_odds_to_prob(ml) ==
    IF isna(ml) THEN Frac(1, 2)
    ELSE IF float_raises(ml) THEN Frac(1, 2)
    ELSE IF ml.kind = "text"
         THEN IF ml.text = "inf" THEN Frac(0, 1) ELSE NaNFrac
    ELSE IF ml.value > 0 THEN Frac(100, ml.value + 100)
    ELSE Frac(abs(ml.value), abs(ml.value) + 100)

\* Series.fillna(value) on one numeric cell
fillna(v, value) == IF v = NaN THEN value ELSE v

(***************************************************************************)
(* The tables.  github_games holds one record per game, odds_historical    *)
(* one record per priced game; the trainers read both.                     *)
(***************************************************************************)
\* bound on the number of game records
MaxGames == 3

\* the (home, away, season) forms a game record takes; every game here is
\* between the same two teams, so no two games share a date
GameShapes == {
    <<Abbr("lal"), Abbr("bos"), 2020>>,
    <<Abbr("bos"), Abbr("lal"), 2020>>,
    <<Name("los angeles lakers"), Abbr("bos"), 2020>>,
    <<Abbr("lal"), Abbr("bos"), 2015>> }

\* final scores (home, away)
Scores == {<<100, 90>>, <<90, 100>>}

GameRecord(i, shape, score) ==
    [game_id |-> i, date |-> i, season |-> shape[3],
     home_team |-> shape[1], away_team |-> shape[2],
     home_score |-> score[1], away_score |-> score[2],
     elo_home_before |-> 1500, elo_away_before |-> 1450]

GameTables ==
    UNION {{[i \in 1..n |-> GameRecord(i, sh[i], sc[i])] :
               sh \in [1..n -> GameShapes], sc \in [1..n -> Scores]} :
           n \in 1..MaxGames}

OddsRecord(y, d, h, a, sp, ml) ==
    [season |-> y, date |-> d, home_team |-> h, away_team |-> a,
     spread |-> sp, over_under |-> 215, ml_home |-> ml, ml_away |-> Num(130)]

\* the odds records a table is drawn from: two records of the same season
\* and pairing (two meetings, or two books), the second with the price
\* text str() makes of an empty cell, and one that names the home team by
\* its abbreviation; the last is of a season outside recent_seasons
OddsUniverse == <<
    OddsRecord(2020, 1, Name("los angeles lakers"), Name("boston celtics"), -3,
               Num(-150)),
    OddsRecord(2020, 2, Str("los angeles lakers", "upper", TRUE),
               Name("boston celtics"), 5, Text("nan")),
    OddsRecord(2020, 3, Abbr("lal"), Name("boston celtics"), 1, Num(-150)),
    OddsRecord(2015, 1, Name("los angeles lakers"), Name("boston celtics"), -2,
               Num(-150)) >>

RECURSIVE SubSeqOf(_, _)
\* the records of seq whose index is in keep, in order
SubSeqOf(seq, keep) ==
    IF seq = << >> THEN << >>
    ELSE LET n == Len(seq)
             front == SubSeqOf(SubSeq(seq, 1, n - 1), keep)
         IN  IF n \in keep THEN Append(front, seq[n]) ELSE front

(***************************************************************************)
(* load_data of each trainer.                                              *)
(***************************************************************************)
EXCLUDED_SEASONS == {2016, 2017, 2018, 2024}

recent_seasons == {2019, 2020, 2021, 2022, 2023}

\* CASE WHEN home_score > away_score THEN 1 ELSE 0 END as home_win
WithHomeWin(g) ==
    [game_id |-> g.game_id, date |-> g.date, season |-> g.season,
     home_team |-> g.home_team, away_team |-> g.away_team,
     elo_home_before |-> g.elo_home_before,
     elo_away_before |-> g.elo_away_before,
     home_win |-> IF g.home_score > g.away_score THEN 1 ELSE 0]

\* the WHERE clause of the games query
GameSelected(ver, g) ==
    CASE ver = "V1" -> g.season >= 2010
      [] ver = "V2" -> g.elo_home_before # NaN
      [] ver = "V3" -> g.elo_home_before # NaN /\ g.season \notin EXCLUDED_SEASONS
      [] ver = "V3_2025" -> /\ g.elo_home_before # NaN
                            /\ g.season \notin EXCLUDED_SEASONS
                            /\ g.season \in recent_seasons

\* the WHERE clause of the odds query
OddsSelected(ver, o) ==
    CASE ver = "V1" -> o.season >= 2010
      [] ver = "V2" -> TRUE
      [] ver = "V3" -> o.season \notin EXCLUDED_SEASONS
      [] ver = "V3_2025" -> /\ o.season \notin EXCLUDED_SEASONS
                            /\ o.season \in recent_seasons

\* games_df as load_data returns it (for V3_2025: games_recent)
load_games(ver, table) ==
    LET Keep(g) == GameSelected(ver, g)
        sel == SelectSeq(table, Keep)
    IN  [i \in 1..Len(sel) |-> WithHomeWin(sel[i])]

\* odds_df as load_data returns it (for V3_2025: odds_recent)
load_odds(ver, table) ==
    LET Keep(o) == OddsSelected(ver, o)
    IN  SelectSeq(table, Keep)

(***************************************************************************)
(* engineer_features: the merge, the sort and the rolling form.            *)
(***************************************************************************)
\* games_df with home_team_mapped / away_team_mapped added
WithMapped(ver, g) ==
    [game_id |-> g.game_id, date |-> g.date, season |-> g.season,
     home_team |-> g.home_team, away_team |-> g.away_team,
     elo_home_before |-> g.elo_home_before,
     elo_away_before |-> g.elo_away_before,
     home_win |-> g.home_win,
     home_team_mapped |-> ResolveGameTeam(ver, g.home_team),
     away_team_mapped |-> ResolveGameTeam(ver, g.away_team)]

\* odds_df with home_team_clean / away_team_clean added
WithClean(o) ==
    [season |-> o.season, spread |-> o.spread, over_under |-> o.over_under,
     ml_home |-> o.ml_home, ml_away |-> o.ml_away,
     home_team_clean |-> str_clean(o.home_team),
     away_team_clean |-> str_clean(o.away_team)]

\* the right-hand columns of a left row that matches no odds row
NoOdds ==
    [spread |-> NaN, over_under |-> NaN,
     ml_home |-> MissingPrice, ml_away |-> MissingPrice]

\* one row of the merge result: the game columns and the odds columns
JoinRow(g, o) ==
    [game_id |-> g.game_id, date |-> g.date, season |-> g.season,
     home_team |-> g.home_team, away_team |-> g.away_team,
     elo_home_before |-> g.elo_home_before,
     elo_away_before |-> g.elo_away_before,
     home_win |-> g.home_win,
     home_team_mapped |-> g.home_team_mapped,
     away_team_mapped |-> g.away_team_mapped,
     spread |-> o.spread, over_under |-> o.over_under,
     ml_home |-> o.ml_home, ml_away |-> o.ml_away]

\* left_on = right_on: season and the two team keys
KeysEqual(g, o) ==
    /\ g.season = o.season
    /\ g.home_team_mapped = o.home_team_clean
    /\ g.away_team_mapped = o.away_team_clean

\* the rows DataFrame.merge emits for one left row: one per matching right
\* row, in right order; a left row without a match survives a left join only
MergeOne(g, right, how) ==
    LET Match(o) == KeysEqual(g, o)
        hits == SelectSeq(right, Match)
    IN  IF hits = << >>
        THEN IF how = "left" THEN <<JoinRow(g, NoOdds)>> ELSE << >>
        ELSE [k \in 1..Len(hits) |-> JoinRow(g, hits[k])]

RECURSIVE merge(_, _, _)
\* games_df.merge(odds_df[...], left_on=..., right_on=..., how=how)
merge(left, right, how) ==
    IF left = << >> THEN << >>
    ELSE LET n == Len(left)
         IN  merge(SubSeq(left, 1, n - 1), right, how)
                 \o MergeOne(left[n], right, how)

\* every trainer's join written how='left'
JoinHow_AlwaysLeft(ver) == "left"

\* the how= argument of each trainer's merge
JoinHow(ver) == IF ver \in {"V1", "V2"} THEN "left" ELSE "inner"

\* the merge of one trainer, each row labelled with its index label
merged_frame(ver, gtable, otable) ==
    LET gdf == load_games(ver, gtable)
        odf == load_odds(ver, otable)
        left == [i \in 1..Len(gdf) |-> WithMapped(ver, gdf[i])]
        right == [i \in 1..Len(odf) |-> WithClean(odf[i])]
        m == merge(left, right, JoinHow(ver))
    IN  [i \in 1..Len(m) |-> [idx |-> i, row |-> m[i]]]

RECURSIVE SortOrders(_, _)
\* the orders sort_values('date') may return for the rows whose positions
\* are left: ascending by date, rows of equal date in any order (the
\* default sort kind is not stable)
SortOrders(frame, left) ==
    IF left = {} THEN {<< >>}
    ELSE LET first == {i \in left :
                         \A j \in left : frame[i].row.date <= frame[j].row.date}
         IN  UNION {{<<frame[i]>> \o rest :
                       rest \in SortOrders(frame, left \ {i})} : i \in first}

\* rolling(window=10, ...)
Window == 10

\* a mean is held as the integer Scale * mean; Scale is lcm(1..10)
Scale == 2520

\* the value 0.5
Half == Scale \div 2

\* the rows before position i that fall into the group of row i
GroupBefore(rows, i, col) ==
    {j \in 1..(i - 1) :
        IF col = "home" THEN rows[j].row.home_team = rows[i].row.home_team
                        ELSE rows[j].row.away_team = rows[i].row.away_team}

\* groupby(col_team)['home_win'].transform(
\*     lambda x: x.shift(1).rolling(window=10, min_periods=1).mean())
\* for col = "home", and the same over (1 - x) for col = "away"
rolling_form(rows, i, col) ==
    LET grp == GroupBefore(rows, i, col)
        win == {j \in grp : Cardinality({k \in grp : k > j}) < Window}
        won == {j \in win : rows[j].row.home_win = (IF col = "home" THEN 1 ELSE 0)}
    IN  IF win = {} THEN NaN
        ELSE (Cardinality(won) * Scale) \div Cardinality(win)

\* .fillna(0.5), which V1 does not apply
fill_form(ver, v) == IF ver # "V1" /\ v = NaN THEN Half ELSE v

\* elo_home_before - elo_away_before
elo_diff(r) ==
    IF r.elo_home_before = NaN \/ r.elo_away_before = NaN THEN NaN
    ELSE r.elo_home_before - r.elo_away_before

\* the feature columns added to the sorted frame
WithFeatures(ver, rows) ==
    [i \in 1..Len(rows) |->
        [idx |-> rows[i].idx, row |-> rows[i].row,
         home_last10_wins |-> fill_form(ver, rolling_form(rows, i, "home")),
         away_last10_wins |-> fill_form(ver, rolling_form(rows, i, "away")),
         elo_diff |-> elo_diff(rows[i].row),
         spread_num |-> IF ver = "V2" THEN fillna(rows[i].row.spread, 0)
                        ELSE rows[i].row.spread,
         over_under |-> IF ver = "V2" THEN fillna(rows[i].row.over_under, 220)
                        ELSE rows[i].row.over_under,
         ml_home_prob |-> IF ver = "V2"
                          THEN LET p == american_odds_to_prob(rows[i].row.ml_home)
                               IN  IF p = NaNFrac THEN Frac(1, 2) ELSE p
                          ELSE american_odds_to_prob(rows[i].row.ml_home),
         ml_away_prob |-> IF ver = "V2"
                          THEN LET p == american_odds_to_prob(rows[i].row.ml_away)
                               IN  IF p = NaNFrac THEN Frac(1, 2) ELSE p
                          ELSE american_odds_to_prob(rows[i].row.ml_away),
         has_odds |-> IF ver # "V2" THEN NaN
                      ELSE IF rows[i].row.spread # NaN THEN 1 ELSE 0]]

\* V1: merged[feature_cols + ['home_win']].dropna()
V1Complete(r) ==
    /\ r.home_last10_wins # NaN
    /\ r.away_last10_wins # NaN
    /\ r.elo_diff # NaN
    /\ r.spread_num # NaN
    /\ r.over_under # NaN
    /\ r.ml_home_prob # NaNFrac
    /\ r.ml_away_prob # NaNFrac

\* the frame engineer_features returns for train_model
model_data_of(ver, frame) ==
    IF ver = "V1" THEN SelectSeq(frame, V1Complete) ELSE frame

(***************************************************************************)
(* train_model: the train/test split.                                      *)
(***************************************************************************)
\* 5 * model_data['date'].quantile(0.8), linear interpolation between the
\* two dates around position 0.8 * (n - 1); rows is in ascending date order
quantile5(rows) ==
    LET n == Len(rows)
        pos == 4 * (n - 1)
        lo == (pos \div 5) + 1
        rem == pos % 5
        hi == IF rem = 0 THEN lo ELSE lo + 1
    IN  5 * rows[lo].row.date + rem * (rows[hi].row.date - rows[lo].row.date)

\* model_data[model_data['date'] < split_date]
BeforeSplit(rows) ==
    LET Early(r) == 5 * r.row.date < quantile5(rows)
    IN  SelectSeq(rows, Early)

\* model_data[model_data['date'] >= split_date]
FromSplit(rows) ==
    LET Late(r) == 5 * r.row.date >= quantile5(rows)
    IN  SelectSeq(rows, Late)

\* number of test rows of train_test_split(test_size=0.2): ceil(0.2 * n)
n_test(n) == (n + 4) \div 5

\* run(): the number of samples below which run() returns before
\* train_model (1000 in the scripts), scaled to the tables of the model
MinSamples == 3

(***************************************************************************)
(* Spec: one trainer run over the tables.                                  *)
(***************************************************************************)
TrainerVersions == {"V1", "V2", "V3", "V3_2025"}

Init ==
    /\ games \in GameTables
    /\ odds \in {SubSeqOf(OddsUniverse, keep) :
                      keep \in SUBSET (1..Len(OddsUniverse))}
    /\ trainer = "none"
    /\ pc = "idle"
    /\ merged = << >>
    /\ model_data = << >>
    /\ train_data = << >>
    /\ test_data = << >>
    /\ ResolveIdle
    /\ StoreIdle
    /\ ServiceIdle
    /\ OddsIdle
    /\ CliIdle
    /\ TablesIdle

\* load_data and engineer_features of trainer ver (for V3_2025 the merge
\* and feature block of train_2025_model)
engineer_features(ver) ==
    /\ pc = "idle"
    /\ LET frame == merged_frame(ver, games, odds)
       IN  \E sorted \in SortOrders(frame, DOMAIN frame) :
              /\ merged' = WithFeatures(ver, sorted)
              /\ model_data' = model_data_of(ver, WithFeatures(ver, sorted))
    /\ trainer' = ver
    /\ pc' = "engineered"
    /\ UNCHANGED <<games, odds, train_data, test_data, resolveVars, storeVars, serviceVars, oddsVars, cliVars, tableVars>>

engineer_features_V1 == engineer_features("V1")

engineer_features_V2 == engineer_features("V2")

engineer_features_V3 == engineer_features("V3")

engineer_features_V3_2025 == engineer_features("V3_2025")

\* run() of V2 and V3 past its guard on len(model_data), then train_model:
\* the split by the 0.8 date quantile.  run() of V3 calls train_2025_model
\* after the global model, under the same guard on the global frame.
train_model_split_by_date ==
    /\ pc = "engineered"
    /\ trainer \in {"V2", "V3", "V3_2025"}
    /\ IF trainer = "V3_2025"
       THEN Len(merged_frame("V3", games, odds)) >= MinSamples
       ELSE Len(model_data) >= MinSamples
    /\ model_data # << >>
    /\ train_data' = BeforeSplit(model_data)
    /\ test_data' = FromSplit(model_data)
    /\ pc' = "split"
    /\ UNCHANGED <<games, odds, trainer, merged, model_data, resolveVars, storeVars, serviceVars, oddsVars, cliVars, tableVars>>

\* train_model of V1: train_test_split(X, y, test_size=0.2, random_state=42,
\* stratify=y).  The seeded shuffle picks the test rows without looking at
\* their dates; which rows it picks is left open here.
train_model_split_shuffled ==
    /\ pc = "engineered"
    /\ trainer = "V1"
    /\ Len(model_data) >= MinSamples
    /\ \E picked \in SUBSET DOMAIN model_data :
          /\ Cardinality(picked) = n_test(Len(model_data))
          /\ test_data' = SubSeqOf(model_data, picked)
          /\ train_data' = SubSeqOf(model_data, DOMAIN model_data \ picked)
    /\ pc' = "split"
    /\ UNCHANGED <<games, odds, trainer, merged, model_data, resolveVars, storeVars, serviceVars, oddsVars, cliVars, tableVars>>

Next ==
    \/ engineer_features_V1
    \/ engineer_features_V2
    \/ engineer_features_V3
    \/ engineer_features_V3_2025
    \/ train_model_split_by_date
    \/ train_model_split_shuffled

Spec == Init /\ [][Next]_vars

(***************************************************************************)
(* Claims about the join and the rolling form.                             *)
(***************************************************************************)
\* the frame with the outcome of every game dated d or later reversed
FlipFrom(rows, d) ==
    [j \in 1..Len(rows) |->
        IF rows[j].row.date >= d
        THEN [rows[j] EXCEPT !.row.home_win = 1 - @]
        ELSE rows[j]]

\* C1: in every trainer the rolling form of a row is computed only from
\* games strictly earlier than the row's own game: reversing the outcome of
\* the row's own game and of every later game leaves home_last10_wins and
\* away_last10_wins of the row unchanged.
C1_FormUsesOnlyEarlierGames ==
    pc # "idle" =>
        \A i \in DOMAIN merged :
            LET changed == FlipFrom(merged, merged[i].row.date)
            IN  /\ merged[i].home_last10_wins
                     = fill_form(trainer, rolling_form(changed, i, "home"))
                /\ merged[i].away_last10_wins
                     = fill_form(trainer, rolling_form(changed, i, "away"))

\* C2: the join yields one row per game: no game identifier appears in more
\* than one row of the merged table.
C2_OneRowPerGame ==
    pc # "idle" =>
        \A i, j \in DOMAIN merged :
            i # j => merged[i].row.game_id # merged[j].row.game_id

\* the game identifiers of a frame
GameIds(rows) == {rows[i].row.game_id : i \in DOMAIN rows}

\* an odds record of the table with the season and the resolved pair of row r
HasMatchingOdds(r) ==
    \E k \in DOMAIN odds :
        /\ odds[k].season = r.season
        /\ str_clean(odds[k].home_team) = ResolveGameTeam(trainer, r.home_team)
        /\ str_clean(odds[k].away_team) = ResolveGameTeam(trainer, r.away_team)

\* C3: the left join of V1/V2 keeps every input game, matched or not; the
\* inner join of V3 (global and 2025) holds a game only if an odds record of
\* the same season and the same resolved (home, away) pair exists.
C3_JoinModes ==
    pc # "idle" =>
        /\ trainer \in {"V1", "V2"} =>
              \A k \in DOMAIN load_games(trainer, games) :
                  load_games(trainer, games)[k].game_id \in GameIds(merged)
        /\ trainer \in {"V3", "V3_2025"} =>
              \A i \in DOMAIN merged : HasMatchingOdds(merged[i].row)

\* the V3 inner join kept a game with odds and dropped one without
C3_Witness ==
    /\ pc = "engineered"
    /\ trainer = "V3"
    /\ merged # << >>
    /\ \E k \in DOMAIN games : games[k].game_id \notin GameIds(merged)

\* the V2 left join kept a game without odds next to a game with odds
C3_WitnessLeft ==
    /\ pc = "engineered"
    /\ trainer = "V2"
    /\ \E i, j \in DOMAIN merged :
          merged[i].row.spread = NaN /\ merged[j].row.spread # NaN

\* C4: join keys are built from resolved identities on both sides: a game
\* and an odds record of the same season whose home and away tokens denote
\* the same canonical teams are matched, whichever alias form each side uses.
C4_KeysResolvedOnBothSides ==
    pc # "idle" =>
        \A k \in DOMAIN load_games(trainer, games) :
            \A m \in DOMAIN load_odds(trainer, odds) :
                LET g == load_games(trainer, games)[k]
                    o == load_odds(trainer, odds)[m]
                IN  ( /\ g.season = o.season
                      /\ Canonical(g.home_team) = Canonical(o.home_team)
                      /\ Canonical(g.away_team) = Canonical(o.away_team) )
                    => \E i \in DOMAIN merged :
                          /\ merged[i].row.game_id = g.game_id
                          /\ merged[i].row.spread = o.spread

\* C7: every trainer splits train/test temporally: train and test partition
\* the model rows, and every training row is dated strictly before every
\* test row.
C7_TemporalSplit ==
    pc = "split" =>
        /\ {train_data[i].idx : i \in DOMAIN train_data}
              \cup {test_data[i].idx : i \in DOMAIN test_data}
              = {model_data[i].idx : i \in DOMAIN model_data}
        /\ Len(train_data) + Len(test_data) = Len(model_data)
        /\ \A i \in DOMAIN train_data : \A j \in DOMAIN test_data :
              train_data[i].row.date < test_data[j].row.date

(***************************************************************************)
(* The artifact store: the models directory written by train_model and     *)
(* read by the loaders.  A file is named by its kind, trainer version,     *)
(* family and the timestamp of its name; it holds the objects of the       *)
(* train_model call that wrote it last, and its modification time.         *)
(***************************************************************************)
\* bound on the number of train_model calls
MaxRuns == 2

\* bound on the wall clock, in seconds
MaxClock == 2

\* the model_type values of the V3 loaders
V3Families == {"global", "2025"}

\* f'{models_dir}/nba_model_v3_{model_name}_{timestamp}.joblib' and its
\* V1 / V2 forms
model_path(ver, fam, ts) == [kind |-> "model", ver |-> ver, fam |-> fam, ts |-> ts]

\* f'{models_dir}/scaler_v3_{model_name}_{timestamp}.joblib' and its
\* V1 / V2 forms
scaler_path(ver, fam, ts) == [kind |-> "scaler", ver |-> ver, fam |-> fam, ts |-> ts]

InitStore ==
    /\ store = << >>
    /\ now = 1
    /\ mclock = 0
    /\ runs = [r \in 1..MaxRuns |->
                   [ver |-> "", fam |-> "", pc |-> "idle", ts |-> 0]]
    /\ MODELS = << >>
    /\ SCALERS = << >>
    /\ predictor = [model_type |-> "2025", status |-> "new",
                    model |-> << >>, scaler |-> << >>]
    /\ bench = [status |-> "new", model |-> << >>, scaler |-> << >>,
                model_file |-> << >>]
    /\ ResolveIdle
    /\ PipeIdle
    /\ ServiceIdle
    /\ OddsIdle
    /\ CliIdle
    /\ TablesIdle

\* joblib.dump(obj, path) by run r: creates the file or replaces its content
dump(files, path, r, mtime) ==
    (path :> [run |-> r, mtime |-> mtime]) @@ files

\* train_model is called for a (version, family): it fits the scaler and the
\* classifier, then takes
\* timestamp = datetime.now().strftime('%Y%m%d_%H%M%S')
train_model_timestamp(r) ==
    /\ runs[r].pc = "idle"
    /\ IF r = 1 THEN TRUE ELSE runs[r - 1].pc # "idle"
    /\ \E k \in {<<"v1", "">>, <<"v2", "">>, <<"v3", "global">>, <<"v3", "2025">>} :
          runs' = [runs EXCEPT ![r] = [ver |-> k[1], fam |-> k[2],
                                        pc |-> "stamped", ts |-> now]]
    /\ UNCHANGED <<store, now, mclock, MODELS, SCALERS, predictor, bench,
                   resolveVars, pipeVars, serviceVars, oddsVars, cliVars, tableVars>>

\* joblib.dump(model, model_path)
train_model_dump_model(r) ==
    /\ runs[r].pc = "stamped"
    /\ store' = dump(store, model_path(runs[r].ver, runs[r].fam, runs[r].ts),
                     r, mclock + 1)
    /\ mclock' = mclock + 1
    /\ runs' = [runs EXCEPT ![r].pc = "model_saved"]
    /\ UNCHANGED <<now, MODELS, SCALERS, predictor, bench, resolveVars, pipeVars, serviceVars, oddsVars, cliVars, tableVars>>

\* joblib.dump(scaler, scaler_path), after which train_model returns
train_model_dump_scaler(r) ==
    /\ runs[r].pc = "model_saved"
    /\ store' = dump(store, scaler_path(runs[r].ver, runs[r].fam, runs[r].ts),
                     r, mclock + 1)
    /\ mclock' = mclock + 1
    /\ runs' = [runs EXCEPT ![r].pc = "done"]
    /\ UNCHANGED <<now, MODELS, SCALERS, predictor, bench, resolveVars, pipeVars, serviceVars, oddsVars, cliVars, tableVars>>

\* the training process dies inside train_model
train_model_crash(r) ==
    /\ runs[r].pc \in {"stamped", "model_saved"}
    /\ runs' = [runs EXCEPT ![r].pc = "crashed"]
    /\ UNCHANGED <<store, now, mclock, MODELS, SCALERS, predictor, bench,
                   resolveVars, pipeVars, serviceVars, oddsVars, cliVars, tableVars>>

\* a second of wall-clock time passes
Tick ==
    /\ now < MaxClock
    /\ now' = now + 1
    /\ UNCHANGED <<store, mclock, runs, MODELS, SCALERS, predictor, bench,
                   resolveVars, pipeVars, serviceVars, oddsVars, cliVars, tableVars>>

\* the loaders are separate programs that only read the store; a behaviour
\* follows one of them
NoLoaderYet ==
    /\ MODELS = << >>
    /\ SCALERS = << >>
    /\ predictor.status = "new"
    /\ bench.status = "new"

\* models_dir.glob(f'nba_model_v3_{model_type}_*.joblib') and the scaler form
glob_v3(files, kind, model_type) ==
    {p \in DOMAIN files : p.kind = kind /\ p.ver = "v3" /\ p.fam = model_type}

\* sorted(paths, key=lambda x: x.stat().st_mtime, reverse=True)[0]
latest_by_mtime(files, paths) ==
    CHOOSE p \in paths : \A q \in paths : files[q].mtime <= files[p].mtime

\* sorted(paths)[-1]: the names differ in the timestamp only
latest_by_name(paths) ==
    CHOOSE p \in paths : \A q \in paths : q.ts <= p.ts

\* joblib.load(path): the file and the objects it holds
load(files, path) == [path |-> path, run |-> files[path].run]

RECURSIVE load_models_over(_, _, _)
\* the loop of load_models over the model types left, from registry reg
load_models_over(files, reg, types) ==
    IF types = << >> THEN reg
    ELSE LET t == Head(types)
             model_files == glob_v3(files, "model", t)
             scaler_files == glob_v3(files, "scaler", t)
             reg2 == IF model_files # {} /\ scaler_files # {}
                     THEN [m |-> (t :> load(files, latest_by_mtime(files, model_files)))
                                   @@ reg.m,
                           s |-> (t :> load(files, latest_by_mtime(files, scaler_files)))
                                   @@ reg.s]
                     ELSE reg
         IN  load_models_over(files, reg2, Tail(types))

\* python-service load_models(), run at startup
load_models ==
    /\ NoLoaderYet
    /\ LET reg == load_models_over(store, [m |-> MODELS, s |-> SCALERS],
                                   <<"global", "2025">>)
       IN  /\ MODELS' = reg.m
           /\ SCALERS' = reg.s
    /\ UNCHANGED <<store, now, mclock, runs, predictor, bench, resolveVars, pipeVars, serviceVars, oddsVars, cliVars, tableVars>>

\* NBAPredictorV3(model_type).load_model()
predictor_load_model(model_type) ==
    /\ NoLoaderYet
    /\ LET own == glob_v3(store, "model", model_type)
           model_files == IF own = {} THEN glob_v3(store, "model", "global") ELSE own
       IN  IF model_files = {}
           THEN predictor' = [model_type |-> model_type, status |-> "failed",
                              model |-> << >>, scaler |-> << >>]
           ELSE LET latest_model == latest_by_name(model_files)
                    latest_scaler == [latest_model EXCEPT !.kind = "scaler"]
                IN  IF latest_scaler \in DOMAIN store
                    THEN predictor' = [model_type |-> model_type, status |-> "loaded",
                                       model |-> load(store, latest_model),
                                       scaler |-> load(store, latest_scaler)]
                    ELSE predictor' = [model_type |-> model_type, status |-> "failed",
                                       model |-> load(store, latest_model),
                                       scaler |-> << >>]
    /\ UNCHANGED <<store, now, mclock, runs, MODELS, SCALERS, bench,
                   resolveVars, pipeVars, serviceVars, oddsVars, cliVars, tableVars>>

\* benchmark-python-v3 load_model_and_scaler(model_type)
load_model_and_scaler(model_type) ==
    /\ NoLoaderYet
    /\ LET model_files == glob_v3(store, "model", model_type)
           scaler_files == glob_v3(store, "scaler", model_type)
       IN  IF model_files = {} \/ scaler_files = {}
           THEN bench' = [status |-> "failed", model |-> << >>, scaler |-> << >>,
                          model_file |-> << >>]
           ELSE bench' = [status |-> "loaded",
                          model |-> load(store, latest_by_mtime(store, model_files)),
                          scaler |-> load(store, latest_by_mtime(store, scaler_files)),
                          model_file |-> << >>]
    /\ UNCHANGED <<store, now, mclock, runs, MODELS, SCALERS, predictor,
                   resolveVars, pipeVars, serviceVars, oddsVars, cliVars, tableVars>>

\* benchmark-python-v3 main(), from the predictions to the output: the
\* 'model_file' it prints is find_latest_model(model_type).name, looked up
\* again at that moment
main_output ==
    /\ bench.status = "loaded"
    /\ bench.model_file = << >>
    /\ bench' = [bench EXCEPT !.model_file =
                     latest_by_mtime(store, glob_v3(store, "model", bench.model.path.fam))]
    /\ UNCHANGED <<store, now, mclock, runs, MODELS, SCALERS, predictor,
                   resolveVars, pipeVars, serviceVars, oddsVars, cliVars, tableVars>>

NextStore ==
    \/ \E r \in 1..MaxRuns : train_model_timestamp(r)
    \/ \E r \in 1..MaxRuns : train_model_dump_model(r)
    \/ \E r \in 1..MaxRuns : train_model_dump_scaler(r)
    \/ \E r \in 1..MaxRuns : train_model_crash(r)
    \/ Tick
    \/ load_models
    \/ \E t \in V3Families : predictor_load_model(t)
    \/ \E t \in V3Families : load_model_and_scaler(t)
    \/ main_output

SpecStore == InitStore /\ [][NextStore]_vars

(***************************************************************************)
(* Claims about artifact selection and persistence.                        *)
(***************************************************************************)
\* the greatest timestamp among the model files of a V3 family
NewestModelTs(files, fam) ==
    LET paths == glob_v3(files, "model", fam)
    IN  CHOOSE n \in {p.ts : p \in paths} : \A p \in paths : p.ts <= n

\* the model file a loader holds is the newest of its family in the store
IsNewest(files, loaded) ==
    loaded.path.ts = NewestModelTs(files, loaded.path.fam)

\* C8: every selector (load_models, find_latest_model / find_latest_scaler,
\* NBAPredictorV3.load_model) returns the artifact with the greatest creation
\* timestamp of the family, whatever the order of listing or modification.
C8_SelectsNewestTimestamp ==
    [][ /\ load_models =>
              \A t \in DOMAIN MODELS' : IsNewest(store, MODELS'[t])
        /\ (\E t \in V3Families : load_model_and_scaler(t)) =>
              (bench'.status = "loaded" => IsNewest(store, bench'.model))
        /\ (\E t \in V3Families : predictor_load_model(t)) =>
              (predictor'.status = "loaded" => IsNewest(store, predictor'.model))
      ]_vars

\* a complete artifact of a V3 family: classifier and scaler of one timestamp
HasArtifact(files, fam) ==
    \E p \in glob_v3(files, "model", fam) :
        [p EXCEPT !.kind = "scaler"] \in DOMAIN files

\* C9: NBAPredictorV3.load_model falls back to 'global' when the requested
\* family has no artifact and 'global' has one, and fails only when neither
\* the requested family nor 'global' has an artifact.
C9_FallbackToGlobal ==
    [][ \A t \in V3Families :
          predictor_load_model(t) =>
              /\ predictor'.status = "failed" =>
                    ~HasArtifact(store, t) /\ ~HasArtifact(store, "global")
              /\ (~HasArtifact(store, t) /\ HasArtifact(store, "global")) =>
                    /\ predictor'.status = "loaded"
                    /\ predictor'.model.path.fam = "global"
      ]_vars

\* C10: persisted artifacts are never overwritten: every completed
\* train_model call has its own classifier and scaler file in the store,
\* holding what that call wrote.
C10_NeverOverwritten ==
    \A r \in DOMAIN runs :
        runs[r].pc = "done" =>
            LET m == model_path(runs[r].ver, runs[r].fam, runs[r].ts)
                s == scaler_path(runs[r].ver, runs[r].fam, runs[r].ts)
            IN  /\ m \in DOMAIN store /\ store[m].run = r
                /\ s \in DOMAIN store /\ store[s].run = r

\* the other file of the artifact a file belongs to: the scaler of a
\* classifier file, the classifier of a scaler file
counterpart(p) ==
    [p EXCEPT !.kind = IF p.kind = "model" THEN "scaler" ELSE "model"]

\* C11: no partial artifact is ever persisted: in every state of the store,
\* also after a crash inside train_model, every classifier file has the
\* scaler file of its family and timestamp, and every scaler file its
\* classifier file.
C11_NoPartialArtifact ==
    \A p \in DOMAIN store : counterpart(p) \in DOMAIN store

(***************************************************************************)
(* The ordered feature lists of the trainers and of the scoring paths.     *)
(***************************************************************************)
\* feature_cols of NBAMLTrainer.engineer_features
feature_cols_V1 ==
    <<"elo_diff", "home_last10_wins", "away_last10_wins", "spread_num",
      "over_under", "ml_home_prob", "ml_away_prob", "rest_days_home",
      "rest_days_away">>

\* feature_cols of NBAMLTrainerV2.engineer_features
feature_cols_V2 ==
    <<"elo_diff", "home_last10_wins", "away_last10_wins", "spread_num",
      "over_under", "ml_home_prob", "ml_away_prob", "rest_days_home",
      "rest_days_away", "has_odds">>

\* feature_cols of NBAMLTrainerV3.engineer_features, also handed to
\* train_2025_model
feature_cols_V3 ==
    <<"elo_diff", "elo_diff_norm", "home_last10_wins", "away_last10_wins",
      "spread_num", "over_under", "ml_home_prob", "ml_away_prob",
      "rest_days_home", "rest_days_away", "season_norm">>

\* feature_order of predict_batch
feature_order ==
    <<"elo_diff", "elo_diff_norm", "home_last10_wins", "away_last10_wins",
      "spread_num", "over_under", "ml_home_prob", "ml_away_prob",
      "rest_days_home", "rest_days_away", "season_norm">>

\* the order in which predict_single reads the fields of request.features
predict_single_order ==
    <<"elo_diff", "elo_diff_norm", "home_last10_wins", "away_last10_wins",
      "spread_num", "over_under", "ml_home_prob", "ml_away_prob",
      "rest_days_home", "rest_days_away", "season_norm">>

\* feature_order of benchmark-python-v3 prepare_features
benchmark_feature_order ==
    <<"elo_diff", "elo_diff_norm", "home_last10_wins", "away_last10_wins",
      "spread_num", "over_under", "ml_home_prob", "ml_away_prob",
      "rest_days_home", "rest_days_away", "season_norm">>

\* NBAPredictor.features
NBAPredictor_features ==
    <<"elo_diff", "home_last10_wins", "away_last10_wins", "spread_num",
      "over_under", "ml_home_prob", "ml_away_prob", "rest_days_home",
      "rest_days_away">>

\* NBAPredictorV2.features with 'has_odds' listed before the rest days
NBAPredictorV2_features_HasOddsEarly ==
    <<"elo_diff", "home_last10_wins", "away_last10_wins", "spread_num",
      "over_under", "ml_home_prob", "ml_away_prob", "has_odds",
      "rest_days_home", "rest_days_away">>

\* NBAPredictorV2.features
NBAPredictorV2_features ==
    <<"elo_diff", "home_last10_wins", "away_last10_wins", "spread_num",
      "over_under", "ml_home_prob", "ml_away_prob", "rest_days_home",
      "rest_days_away", "has_odds">>

\* NBAPredictorV3.features
NBAPredictorV3_features ==
    <<"elo_diff", "elo_diff_norm", "home_last10_wins", "away_last10_wins",
      "spread_num", "over_under", "ml_home_prob", "ml_away_prob",
      "rest_days_home", "rest_days_away", "season_norm">>

(***************************************************************************)
(* Scoring.  Probabilities and confidences are integers in units of        *)
(* 1 / ProbScale.  The fitted scaler and classifier are fixed functions of *)
(* the fitted object and of the row, sensitive to the column positions.    *)
(***************************************************************************)
ProbScale == 100000

\* scaler.transform(X) on one row
transform(scaler, row) == [k \in DOMAIN row |-> row[k] + scaler.run]

RECURSIVE weighted(_, _)
\* a position-weighted sum of the first k columns of a row
weighted(row, k) == IF k = 0 THEN 0 ELSE k * row[k] + weighted(row, k - 1)

\* model.predict_proba(X_scaled)[:, 1] on one row; Probabilities are the
\* values it takes
predict_proba(model, row) ==
    LET Probabilities == <<0, 12345, 49999, 50000, 50004, 73000, 99998, 100000>>
    IN  Probabilities[((model.run + weighted(row, Len(row))) % Len(Probabilities)) + 1]

\* model.predict(X_scaled) on one row: the class of the greater probability
predict(model, row) == IF predict_proba(model, row) > ProbScale \div 2 THEN 1 ELSE 0

\* abs(home_prob - 0.5), without the factor 2
confidence_of_Unscaled(p) == abs(p - ProbScale \div 2)

\* abs(home_prob - 0.5) * 2
confidence_of(p) == abs(p - ProbScale \div 2) * 2

\* round(x, 4), to the nearest multiple of 10 / ProbScale (an exact half
\* goes to the even neighbour)
round4(x) ==
    LET r == x % 10
        lo == x - r
    IN  IF r < 5 THEN lo
        ELSE IF r > 5 THEN lo + 10
        ELSE IF (lo \div 10) % 2 = 0 THEN lo ELSE lo + 10

(***************************************************************************)
(* SpecScoring: the scoring programs, each started on a models directory.  *)
(* The inference service: at startup load_models fills the MODELS and      *)
(* SCALERS registries, one assignment at a time; once the startup handler  *)
(* has returned the service answers batch and single prediction requests.  *)
(* The CLI predictors: predict() loads the latest artifact, reads the      *)
(* upcoming games, prepares their features and scores them.                *)
(***************************************************************************)
\* bound on the number of game entries of a batch request
MaxBatch == 2

\* the files one train_model call of a trainer version and family left in
\* the models directory: none, the classifier only (the call died between
\* its two dumps), or both
ArtifactFiles(ver, fam, r, shape) ==
    IF shape = "none" THEN << >>
    ELSE IF shape = "partial"
         THEN model_path(ver, fam, 1) :> [run |-> r, mtime |-> 2 * r - 1]
         ELSE (model_path(ver, fam, 1) :> [run |-> r, mtime |-> 2 * r - 1])
                @@ (scaler_path(ver, fam, 1) :> [run |-> r, mtime |-> 2 * r])

\* the models directories a scoring program is started on
ScoringStores ==
    {ArtifactFiles("v3", "global", 1, a) @@ ArtifactFiles("v3", "2025", 2, b)
        @@ ArtifactFiles("v2", "", 3, c) @@ ArtifactFiles("v1", "", 4, e) :
        a \in {"none", "partial", "complete"}, b \in {"none", "partial", "complete"},
        c \in {"none", "complete"}, e \in {"none", "complete"}}

\* a complete 'features' object and a second one
FeaturesA == [f \in {feature_order[k] : k \in DOMAIN feature_order} |-> 1]

FeaturesB ==
    [f \in {feature_order[k] : k \in DOMAIN feature_order} |->
        IF f = "elo_diff" THEN 3 ELSE IF f = "season_norm" THEN 2 ELSE 0]

\* a 'features' object without the key 'season_norm'
FeaturesShort ==
    [f \in {feature_order[k] : k \in DOMAIN feature_order} \ {"season_norm"} |-> 1]

\* the dicts a client sends as entries of 'games'
GameEntries ==
    {[features |-> FeaturesA], [features |-> FeaturesB],
     [features |-> FeaturesShort], [home_team |-> "LAL"]}

\* the model_type values a client sends; "" stands for a payload without
\* the field
ModelTypes == {"global", "2025", "2024", ""}

\* the default of model_type in PredictRequest and SinglePredictRequest
model_type_of(sent) == IF sent = "" THEN "2025" ELSE sent

InitScoring ==
    /\ store \in ScoringStores
    /\ now = 1
    /\ mclock = 0
    /\ runs = << >>
    /\ MODELS = << >>
    /\ SCALERS = << >>
    /\ predictor = [model_type |-> "2025", status |-> "new",
                    model |-> << >>, scaler |-> << >>]
    /\ bench = [status |-> "new", model |-> << >>, scaler |-> << >>,
                model_file |-> << >>]
    /\ svc \in {[pc |-> "loop", todo |-> <<"global", "2025">>],
                 [pc |-> "off", todo |-> << >>]}
    /\ request = << >>
    /\ response = << >>
    /\ ResolveIdle
    /\ PipeIdle
    /\ OddsIdle
    /\ CliIdle
    /\ TablesIdle

\* load_models, one turn of 'for model_type in [...]' up to and including
\* MODELS[model_type] = joblib.load(model_files[0])
load_models_model ==
    /\ svc.pc = "loop"
    /\ svc.todo # << >>
    /\ LET model_type == Head(svc.todo)
           model_files == glob_v3(store, "model", model_type)
           scaler_files == glob_v3(store, "scaler", model_type)
       IN  IF model_files # {} /\ scaler_files # {}
           THEN /\ MODELS' = (model_type :> load(store, latest_by_mtime(store, model_files)))
                               @@ MODELS
                /\ svc' = [svc EXCEPT !.pc = "model_set"]
           ELSE /\ MODELS' = MODELS
                /\ svc' = [svc EXCEPT !.todo = Tail(svc.todo)]
    /\ UNCHANGED <<store, now, mclock, runs, SCALERS, predictor, bench,
                   request, response, resolveVars, pipeVars, oddsVars, cliVars, tableVars>>

\* SCALERS[model_type] = joblib.load(scaler_files[0])
load_models_scaler ==
    /\ svc.pc = "model_set"
    /\ LET model_type == Head(svc.todo)
           scaler_files == glob_v3(store, "scaler", model_type)
       IN  SCALERS' = (model_type :> load(store, latest_by_mtime(store, scaler_files)))
                        @@ SCALERS
    /\ svc' = [pc |-> "loop", todo |-> Tail(svc.todo)]
    /\ UNCHANGED <<store, now, mclock, runs, MODELS, predictor, bench,
                   request, response, resolveVars, pipeVars, oddsVars, cliVars, tableVars>>

\* the startup handler returns and the server starts to accept requests
startup ==
    /\ svc.pc = "loop"
    /\ svc.todo = << >>
    /\ svc' = [svc EXCEPT !.pc = "serving"]
    /\ UNCHANGED <<storeVars, request, response, resolveVars, pipeVars, oddsVars, cliVars, tableVars>>

\* accepting, were requests handled while load_models is still running
accepting_DuringStartup == svc.pc \in {"loop", "model_set", "serving"}

\* requests are handled once the startup event has completed; a handler has
\* no await and runs to its end on the event loop
accepting == svc.pc = "serving"

\* an exception no handler catches: the framework answers 500
internal_server_error == [status |-> 500, detail |-> "Internal Server Error"]

\* the framework's answer to a body that fails the request model
validation_error == [status |-> 422, detail |-> "validation error"]

\* HTTPException(400, 'Model ... not found'), answered as a server error
model_not_found_AsServerError(model_type) ==
    [status |-> 500, detail |-> "Model not found", model_type |-> model_type]

\* raise HTTPException(status_code=400, detail=f"Model {model_type} not found")
model_not_found(model_type) ==
    [status |-> 400, detail |-> "Model not found", model_type |-> model_type]

\* g['features'][f] for f in feature_order raises KeyError
KeyErrorIn(g, order) ==
    \/ "features" \notin DOMAIN g
    \/ \E k \in DOMAIN order : order[k] \notin DOMAIN g.features

\* [g['features'][f] for f in feature_order]
row_of(g, order) == [k \in DOMAIN order |-> g.features[order[k]]]

\* the body of predict_batch on the registries it reads
predict_batch_response(models, scalers, req) ==
    IF req.model_type \notin DOMAIN models THEN model_not_found(req.model_type)
    ELSE IF req.model_type \notin DOMAIN scalers THEN internal_server_error
    ELSE IF \E i \in DOMAIN req.games : KeyErrorIn(req.games[i], feature_order)
         THEN internal_server_error
    ELSE IF req.games = << >> THEN internal_server_error
    ELSE LET model == models[req.model_type]
             scaler == scalers[req.model_type]
             X_scaled == [i \in DOMAIN req.games |->
                            transform(scaler, row_of(req.games[i], feature_order))]
             home_probs == [i \in DOMAIN X_scaled |-> predict_proba(model, X_scaled[i])]
         IN  [status |-> 200,
              model_type |-> req.model_type,
              predictions |-> [i \in DOMAIN X_scaled |-> predict(model, X_scaled[i])],
              probabilities |-> home_probs,
              confidence |-> [i \in DOMAIN home_probs |-> confidence_of(home_probs[i])]]

\* POST /predict
predict_batch ==
    /\ accepting
    /\ \E sent \in ModelTypes, gs \in UNION {[1..m -> GameEntries] : m \in 0..MaxBatch} :
          LET req == [endpoint |-> "predict", model_type |-> model_type_of(sent),
                      games |-> gs]
          IN  /\ request' = req
              /\ response' = predict_batch_response(MODELS, SCALERS, req)
    /\ UNCHANGED <<svc, storeVars, resolveVars, pipeVars, oddsVars, cliVars, tableVars>>

\* the body of predict_single on the registries it reads
predict_single_response(models, scalers, req) ==
    IF req.model_type \notin DOMAIN models THEN model_not_found(req.model_type)
    ELSE IF req.model_type \notin DOMAIN scalers THEN internal_server_error
    ELSE LET model == models[req.model_type]
             scaler == scalers[req.model_type]
             X_scaled == transform(scaler, row_of(req, predict_single_order))
             home_prob == predict_proba(model, X_scaled)
             confidence == confidence_of(home_prob)
         IN  [status |-> 200,
              prediction |-> predict(model, X_scaled),
              home_win_probability |-> round4(home_prob),
              confidence |-> round4(confidence)]

\* POST /predict/single: the body is validated against SinglePredictRequest
\* (every field of GameFeatures is required) before the handler runs
predict_single ==
    /\ accepting
    /\ \E sent \in ModelTypes, f \in {FeaturesA, FeaturesB, FeaturesShort} :
          LET req == [endpoint |-> "predict/single",
                      model_type |-> model_type_of(sent), features |-> f]
          IN  /\ request' = req
              /\ response' = IF KeyErrorIn(req, predict_single_order)
                             THEN validation_error
                             ELSE predict_single_response(MODELS, SCALERS, req)
    /\ UNCHANGED <<svc, storeVars, resolveVars, pipeVars, oddsVars, cliVars, tableVars>>

(***************************************************************************)
(* The CLI predictors: predict-games.py (V1), predict-games-v2.py (V2) and *)
(* predict-games-v3.py (V3, for a model_type).                             *)
(***************************************************************************)
\* bound on the number of upcoming games
MaxUpcoming == 2

\* one row of get_upcoming_games(): the odds_api_2025 rows of a game grouped
\* into one, MAX(CASE WHEN market = ... END) being NULL for a market in
\* which the game has no row; ms are the markets in which it has one
upcoming_game(id, ms) ==
    [game_id |-> id,
     home_team |-> Name("los angeles lakers"),
     away_team |-> Name("boston celtics"),
     spread |-> IF "spreads" \in ms THEN -4 ELSE NaN,
     over_under |-> IF "totals" \in ms THEN 215 ELSE NaN,
     ml_home_prob |-> IF "h2h" \in ms THEN 60000 ELSE NaN,
     ml_away_prob |-> IF "h2h" \in ms THEN 40000 ELSE NaN]

\* the frames get_upcoming_games() returns
UpcomingTables ==
    UNION {{[i \in 1..n |-> upcoming_game(i, f[i])] : f \in [1..n -> SUBSET {"spreads", "totals", "h2h"}]} :
              n \in 0..MaxUpcoming}

\* team_map of NBAPredictor.prepare_features:
\* dict(zip(full_name.str.lower(), abbreviation.str.upper()))
predictor_team_map ==
    DictOf([i \in 1..Len(TEAM_MAPPING) |->
              <<Lower(team_mapping_table[TEAM_MAPPING[i][1]]),
                Upper(TEAM_MAPPING[i][1])>>])

\* the ELO a predictor gives a team of an upcoming game
\* (elo_dict: AVG(elo_home_after) by github_games.home_team)
elo_of(ver, team) ==
    LET elo_dict == (Abbr("lal") :> 1600) @@ (Abbr("bos") :> 1550)
        default_elo == 1500
        name == Lower(team)
        abbr == IF name \in DOMAIN predictor_team_map
                THEN predictor_team_map[name] ELSE NaNStr
    IN  IF ver = "V1"
        THEN IF abbr \in DOMAIN elo_dict THEN elo_dict[abbr] ELSE default_elo
        ELSE IF team \in DOMAIN elo_dict THEN elo_dict[team] ELSE default_elo

\* the columns prepare_features adds to the row of one upcoming game;
\* elo_diff_norm is held times 800 and season_norm times 60
prepare_columns(ver, model_type, g) ==
    LET elo_diff_g == elo_of(ver, g.home_team) - elo_of(ver, g.away_team)
    IN  [elo_diff |-> elo_diff_g,
         elo_diff_norm |-> elo_diff_g + 400,
         home_last10_wins |-> Half,
         away_last10_wins |-> Half,
         spread_num |-> fillna(g.spread, 0),
         over_under |-> fillna(g.over_under, 220),
         ml_home_prob |-> fillna(g.ml_home_prob, ProbScale \div 2),
         ml_away_prob |-> fillna(g.ml_away_prob, ProbScale \div 2),
         rest_days_home |-> 2,
         rest_days_away |-> 2,
         season_norm |-> IF model_type = "2025" THEN ((2025 - 2019) * 60) \div 4
                         ELSE ((2025 - 2010) * 60) \div 15,
         has_odds |-> IF g.spread # NaN THEN 1 ELSE 0]

\* prepare_features(games_df): games_df[self.features]
prepare_features(ver, model_type, games_df) ==
    LET \* self.features of the predictor
        features == IF ver = "V1" THEN NBAPredictor_features
                    ELSE IF ver = "V2" THEN NBAPredictorV2_features
                    ELSE NBAPredictorV3_features
    IN  [columns |-> features,
         rows |-> [i \in DOMAIN games_df |->
                      row_of([features |-> prepare_columns(ver, model_type, games_df[i])],
                             features)]]

\* the place of a file name in sorted(): 'nba_model_2...' < 'nba_model_v2_'
\* < 'nba_model_v3_2025_' < 'nba_model_v3_global_' (and so for 'scaler_')
name_rank(p) ==
    IF p.ver = "v1" THEN 1
    ELSE IF p.ver = "v2" THEN 2
    ELSE IF p.fam = "2025" THEN 3 ELSE 4

\* sorted(paths)[-1] of paths of one kind
sorted_last(paths) ==
    CHOOSE p \in paths : \A q \in paths :
        \/ name_rank(q) < name_rank(p)
        \/ name_rank(q) = name_rank(p) /\ q.ts <= p.ts


FileNotFound == [status |-> "FileNotFoundError", model |-> << >>, scaler |-> << >>]

\* load_model() of NBAPredictor and of NBAPredictorV2
load_model_sorted(files, model_files, scaler_files) ==
    IF model_files = {} \/ scaler_files = {} THEN FileNotFound
    ELSE [status |-> "loaded",
          model |-> load(files, sorted_last(model_files)),
          scaler |-> load(files, sorted_last(scaler_files))]

\* load_model() of NBAPredictorV3
load_model_V3(files, model_type) ==
    LET own == glob_v3(files, "model", model_type)
        model_files == IF own = {} THEN glob_v3(files, "model", "global") ELSE own
    IN  IF model_files = {} THEN FileNotFound
        ELSE LET latest_model == sorted_last(model_files)
                 latest_scaler == [latest_model EXCEPT !.kind = "scaler"]
             IN  IF latest_scaler \in DOMAIN files
                 THEN [status |-> "loaded",
                       model |-> load(files, latest_model),
                       scaler |-> load(files, latest_scaler)]
                 ELSE FileNotFound

\* load_model() of the predictor
cli_load_model(ver, model_type, files) ==
    LET \* glob(f'{models_dir}/nba_model_*.joblib'), glob(f'{models_dir}/scaler_*.joblib')
        glob_any(kind) == {p \in DOMAIN files : p.kind = kind}
        \* glob(f'{models_dir}/nba_model_v2_*.joblib') and the scaler form
        glob_v2(kind) == {p \in DOMAIN files : p.kind = kind /\ p.ver = "v2"}
    IN  IF ver = "V1"
        THEN load_model_sorted(files, glob_any("model"), glob_any("scaler"))
        ELSE IF ver = "V2"
        THEN load_model_sorted(files, glob_v2("model"), glob_v2("scaler"))
        ELSE load_model_V3(files, model_type)

\* the number of columns a fitted scaler or classifier was fitted on: that
\* of feature_cols of the trainer that saved it
n_features_in(obj) ==
    IF obj.path.ver = "v1" THEN Len(feature_cols_V1)
    ELSE IF obj.path.ver = "v2" THEN Len(feature_cols_V2)
    ELSE Len(feature_cols_V3)

\* save_predictions of a CLI predictor: the tables it can leave.  V1 drops
\* and re-creates predictions before it inserts the rows.  V2 creates
\* predictions_v2 if it does not exist and inserts into it 8 values per row,
\* for the 9 columns of the table: where the engine accepts that the rows
\* are appended, where it rejects it the first INSERT raises and no row is
\* written.  V3 has no save_predictions.
save_predictions(ver, tables, rows) ==
    IF ver = "V1" THEN {[tables EXCEPT !.predictions = rows]}
    ELSE IF ver = "V2" /\ rows # << >>
    THEN {[tables EXCEPT !.predictions_v2 = @ \o rows], tables}
    ELSE {tables}

\* the predictions predict() adds to games_df
score_games(loaded, games_df, frame) ==
    [i \in DOMAIN games_df |->
        LET X_scaled == transform(loaded.scaler, frame.rows[i])
            p == predict_proba(loaded.model, X_scaled)
        IN  [game_id |-> games_df[i].game_id,
             predicted_winner |-> IF predict(loaded.model, X_scaled) = 1
                                  THEN games_df[i].home_team
                                  ELSE games_df[i].away_team,
             home_win_prob |-> p,
             confidence |-> confidence_of(p)]]

\* predict() of a CLI predictor
cli_predict(ver, model_type) ==
    /\ svc.pc = "off"
    /\ cli.ver = "none"
    /\ cli' = [ver |-> ver, model_type |-> model_type]
    /\ LET loaded == cli_load_model(ver, model_type, store)
       IN  IF loaded.status # "loaded"
           THEN /\ scored' = [status |-> loaded.status, rows |-> << >>]
                /\ UNCHANGED <<upcoming, X, db>>
           ELSE \E games_df \in UpcomingTables :
                  /\ upcoming' = games_df
                  /\ IF games_df = << >>
                     THEN /\ scored' = [status |-> "no games", rows |-> << >>]
                          /\ UNCHANGED <<X, db>>
                     ELSE LET frame == prepare_features(ver, model_type, games_df)
                          IN  /\ X' = frame
                              /\ scored' =
                                   IF \/ n_features_in(loaded.scaler) # Len(frame.columns)
                                      \/ n_features_in(loaded.model) # Len(frame.columns)
                                   THEN [status |-> "ValueError", rows |-> << >>]
                                   ELSE [status |-> "scored",
                                         rows |-> score_games(loaded, games_df, frame)]
                              /\ IF scored'.status = "scored"
                                 THEN db' \in save_predictions(ver, db, scored'.rows)
                                 ELSE UNCHANGED db
    /\ UNCHANGED <<svc, request, response, saved, storeVars, resolveVars, pipeVars, oddsVars>>

NBAPredictor_predict == cli_predict("V1", "")

NBAPredictorV2_predict == cli_predict("V2", "")

NBAPredictorV3_predict == \E model_type \in V3Families : cli_predict("V3", model_type)

NextScoring ==
    \/ load_models_model
    \/ load_models_scaler
    \/ startup
    \/ predict_batch
    \/ predict_single
    \/ NBAPredictor_predict
    \/ NBAPredictorV2_predict
    \/ NBAPredictorV3_predict

SpecScoring == InitScoring /\ [][NextScoring]_vars

(***************************************************************************)
(* Claims about the inference service.                                     *)
(***************************************************************************)
\* a request handler of the service takes its step
Handles == predict_batch \/ predict_single

\* the body passed the validation of its request model
PassedValidation(req) ==
    req.endpoint = "predict/single" => ~KeyErrorIn(req, predict_single_order)

C13_NoHalfUpdatedRegistry ==
    [][ Handles =>
          /\ DOMAIN MODELS = DOMAIN SCALERS
          /\ request'.model_type \in DOMAIN MODELS
                => request'.model_type \in DOMAIN SCALERS
      ]_vars

\* load_models went through a family whose model it set before its scaler,
\* skipped the other family, and a request for the loaded family was scored
C13_Witness ==
    /\ svc.pc = "serving"
    /\ DOMAIN MODELS = {"2025"}
    /\ \E p \in DOMAIN store : p.fam = "global"
    /\ request # << >>
    /\ request.model_type = "2025"
    /\ response.status = 200

\* every entry of a batch request carries a complete feature set
CompleteBatch(req) ==
    /\ req.endpoint = "predict"
    /\ \A i \in DOMAIN req.games : ~KeyErrorIn(req.games[i], feature_order)

\* C14: for every batch request with N game entries carrying complete
\* feature sets and a loaded family, predict_batch returns exactly N
\* predictions, N probabilities and N confidences, in the order of the
\* request entries and all scored with the requested family.
C14_BatchReturnsNInOrder ==
    (request # << >> /\ CompleteBatch(request)
        /\ request.model_type \in DOMAIN MODELS) =>
        /\ response.status = 200
        /\ response.model_type = request.model_type
        /\ Len(response.predictions) = Len(request.games)
        /\ Len(response.probabilities) = Len(request.games)
        /\ Len(response.confidence) = Len(request.games)
        /\ \A i \in DOMAIN request.games :
              LET row == transform(SCALERS[request.model_type],
                                   row_of(request.games[i], feature_order))
                  model == MODELS[request.model_type]
              IN  /\ response.probabilities[i] = predict_proba(model, row)
                  /\ response.predictions[i] = predict(model, row)
                  /\ response.confidence[i] = confidence_of(predict_proba(model, row))

\* the payload of a batch request is malformed: an entry without 'features'
\* or without one of the feature names, or an empty games list
Malformed(req) ==
    /\ req.endpoint = "predict"
    /\ \/ req.games = << >>
       \/ \E i \in DOMAIN req.games : KeyErrorIn(req.games[i], feature_order)

\* C16: a malformed batch payload is reported to the caller as a
\* client-side validation error (a 4xx answer), and after it the loaded
\* MODELS / SCALERS registry is what it was before the request.
C16_MalformedIsClientError ==
    [][ (predict_batch /\ Malformed(request')) =>
          /\ response'.status \in 400..499
          /\ MODELS' = MODELS
          /\ SCALERS' = SCALERS
      ]_vars

(***************************************************************************)
(* Claims about scoring.                                                   *)
(***************************************************************************)
\* the home-win probability predict_single computed for its request
single_home_prob ==
    predict_proba(MODELS[request.model_type],
                  transform(SCALERS[request.model_type],
                            row_of(request, predict_single_order)))

\* a confidence c is |p - 0.5| * 2, within [0, 1], 0 exactly at p = 0.5 and
\* 1 exactly at p = 0 or p = 1
ExactConfidence(p, c) ==
    /\ c = abs(p - ProbScale \div 2) * 2
    /\ c \in 0..ProbScale
    /\ c = 0 <=> p = ProbScale \div 2
    /\ c = ProbScale <=> p \in {0, ProbScale}

\* C15: in every scoring path (predict_batch, predict_single, the CLI
\* predictors) the confidence given for a home-win probability p is
\* |p - 0.5| * 2; it lies in [0, 1], is 0 exactly at p = 0.5 and 1 exactly at
\* p = 0 or p = 1.
C15_ConfidenceFromProbability ==
    /\ (response # << >> /\ response.status = 200 /\ request.endpoint = "predict") =>
          \A i \in DOMAIN response.confidence :
              ExactConfidence(response.probabilities[i], response.confidence[i])
    /\ (response # << >> /\ response.status = 200
          /\ request.endpoint = "predict/single") =>
          ExactConfidence(single_home_prob, response.confidence)
    /\ (scored # << >> /\ scored.status = "scored") =>
          \A i \in DOMAIN scored.rows :
              ExactConfidence(scored.rows[i].home_win_prob, scored.rows[i].confidence)

\* C15, amended: predict_batch and the CLI predictors give |p - 0.5| * 2,
\* which is 0 exactly at p = 0.5 and 1 exactly at p = 0 or p = 1;
\* predict_single gives that value rounded to 4 decimals.  In every path the
\* confidence lies in [0, 1], is 0 at p = 0.5 and 1 at p = 0 and at p = 1.
C15_ConfidenceUpToRounding ==
    /\ (response # << >> /\ response.status = 200 /\ request.endpoint = "predict") =>
          \A i \in DOMAIN response.confidence :
              ExactConfidence(response.probabilities[i], response.confidence[i])
    /\ (response # << >> /\ response.status = 200
          /\ request.endpoint = "predict/single") =>
          LET p == single_home_prob
              c == response.confidence
          IN  /\ c = round4(abs(p - ProbScale \div 2) * 2)
              /\ c \in 0..ProbScale
              /\ p = ProbScale \div 2 => c = 0
              /\ p \in {0, ProbScale} => c = ProbScale
    /\ (scored # << >> /\ scored.status = "scored") =>
          \A i \in DOMAIN scored.rows :
              ExactConfidence(scored.rows[i].home_win_prob, scored.rows[i].confidence)

\* predict_single answered with a confidence that rounding changed
C15_Witness ==
    /\ response # << >>
    /\ response.status = 200
    /\ request.endpoint = "predict/single"
    /\ response.confidence # abs(single_home_prob - ProbScale \div 2) * 2


\* feature_cols of the trainer whose artifacts a CLI predictor is written for
trainer_feature_cols(ver) ==
    IF ver = "V1" THEN feature_cols_V1
    ELSE IF ver = "V2" THEN feature_cols_V2
    ELSE feature_cols_V3

\* C17: for each model family the ordered feature list used at inference is
\* the ordered feature list used at training: feature_cols of the V3 trainer
\* is the order of predict_batch, of predict_single, of the benchmark and of
\* NBAPredictorV3.features; feature_cols of the V2 trainer is
\* NBAPredictorV2.features and that of the V1 trainer NBAPredictor.features;
\* and the frame a CLI predictor hands to its scaler has the trainer's
\* columns in the trainer's order.
C17_FeatureOrderMatches ==
    /\ feature_order = feature_cols_V3
    /\ predict_single_order = feature_cols_V3
    /\ benchmark_feature_order = feature_cols_V3
    /\ NBAPredictorV3_features = feature_cols_V3
    /\ NBAPredictorV2_features = feature_cols_V2
    /\ NBAPredictor_features = feature_cols_V1
    /\ X # << >> =>
          /\ X.columns = trainer_feature_cols(cli.ver)
          /\ \A i \in DOMAIN X.rows :
                X.rows[i] = row_of([features |->
                                      prepare_columns(cli.ver, cli.model_type, upcoming[i])],
                                   trainer_feature_cols(cli.ver))

\* the V2 predictor prepared the features of two games with different odds
\* and scored them with a V2 artifact
C17_Witness ==
    /\ cli.ver = "V2"
    /\ scored # << >>
    /\ scored.status = "scored"
    /\ Len(X.rows) = 2
    /\ X.rows[1] # X.rows[2]

(***************************************************************************)
(* SpecOdds: a trainer converts one moneyline price.                       *)
(***************************************************************************)
InitOdds ==
    /\ price \in Prices
    /\ implied = << >>
    /\ ResolveIdle
    /\ PipeIdle
    /\ StoreIdle
    /\ ServiceIdle
    /\ CliIdle
    /\ TablesIdle

\* merged['ml_home'].apply(self.american_odds_to_prob) on one cell
apply_american_odds_to_prob ==
    /\ implied = << >>
    /\ implied' = american_odds_to_prob(price)
    /\ UNCHANGED <<price, resolveVars, pipeVars, storeVars, serviceVars, cliVars, tableVars>>

NextOdds == apply_american_odds_to_prob

SpecOdds == InitOdds /\ [][NextOdds]_vars

\* C18: american_odds_to_prob returns a value strictly between 0 and 1 for
\* every valid non-zero American price, positive or negative, and exactly
\* 0.5 for a missing price and for any invalid (non-numeric) price; it never
\* raises an error.
C18_ImpliedProbabilityRange ==
    implied # << >> =>
        /\ (price.kind = "number" /\ price.value # 0) =>
              FracLess(Frac(0, 1), implied) /\ FracLess(implied, Frac(1, 1))
        /\ price.kind \in {"missing", "text"} => FracEq(implied, Frac(1, 2))

\* C19: american_odds_to_prob equals the reference conversion for every
\* non-zero price p; +150 gives 100/250 = 0.40, -200 gives 200/300; and for
\* every p > 0 the results for +p and -p sum to exactly 1.
C19_MatchesReference ==
    (implied # << >> /\ price.kind = "number" /\ price.value # 0) =>
        /\ price.value > 0 => FracEq(implied, Frac(100, price.value + 100))
        /\ price.value < 0 => FracEq(implied, Frac(-price.value, -price.value + 100))
        /\ price.value = 150 => FracEq(implied, Frac(40, 100))
        /\ price.value = -200 => FracEq(implied, Frac(200, 300))
        /\ price.value > 0 =>
              FracEq(FracAdd(implied, american_odds_to_prob(Num(-price.value))),
                     Frac(1, 1))

\* the price -200 has been converted
C19_Witness ==
    /\ price = Num(-200)
    /\ implied # << >>

\* the odds columns of a feature row carry the defaults of a game without
\* odds
OddsDefaults(spread_num, over_under, ml_home_prob, ml_away_prob) ==
    /\ spread_num = 0
    /\ over_under = 220
    /\ ml_home_prob
    /\ ml_away_prob

\* C20, V2 trainer: a game without a matching odds record gets spread_num 0,
\* over_under 220, both moneyline probabilities 0.5 and has_odds 0; a game
\* with a matching odds record gets has_odds 1.
C20_TrainerDefaults ==
    (trainer = "V2" /\ pc # "idle") =>
        \A i \in DOMAIN merged :
            LET r == merged[i]
            IN  IF HasMatchingOdds(r.row)
                THEN r.has_odds = 1
                ELSE /\ OddsDefaults(r.spread_num, r.over_under,
                                     FracEq(r.ml_home_prob, Frac(1, 2)),
                                     FracEq(r.ml_away_prob, Frac(1, 2)))
                     /\ r.has_odds = 0

\* the value of column name in row i of the frame of prepare_features
column(frame, i, name) ==
    frame.rows[i][CHOOSE k \in DOMAIN frame.columns : frame.columns[k] = name]

\* an odds record of the upcoming game was found: one of its markets has a
\* value
OddsFound(g) ==
    \/ g.spread # NaN
    \/ g.over_under # NaN
    \/ g.ml_home_prob # NaN
    \/ g.ml_away_prob # NaN

\* C20: missing-odds policy of the odds-tolerant pipeline (V2 trainer and
\* the CLI predictors): every game with no matching odds record gets
\* spread_num 0, over_under 220, ml_home_prob 0.5, ml_away_prob 0.5 and
\* has_odds 0; every game for which an odds record was found gets
\* has_odds 1.
C20_MissingOddsPolicy ==
    /\ C20_TrainerDefaults
    /\ X # << >> =>
          \A i \in DOMAIN upcoming :
              /\ ~OddsFound(upcoming[i]) =>
                    OddsDefaults(column(X, i, "spread_num"), column(X, i, "over_under"),
                                 column(X, i, "ml_home_prob") = ProbScale \div 2,
                                 column(X, i, "ml_away_prob") = ProbScale \div 2)
              /\ cli.ver = "V2" =>
                    column(X, i, "has_odds") = IF OddsFound(upcoming[i]) THEN 1 ELSE 0

\* C21: in every trainer, every entry of the feature matrix handed to
\* scaler.fit_transform / model.fit is a defined number, also when a raw
\* field of a loaded row is null.
C21_NoMissingValueInMatrix ==
    pc = "split" =>
        \A i \in DOMAIN train_data : V1Complete(train_data[i])

\* C22: in every trainer, the first row of a team as home (as away) in date
\* order has the rolling-form feature of that role at exactly 0.5, and the
\* row is kept in the frame handed to train_model.
C22_FirstGameFormIsHalf ==
    pc # "idle" =>
        \A i \in DOMAIN merged :
            LET kept == \E j \in DOMAIN model_data : model_data[j].idx = merged[i].idx
            IN  /\ GroupBefore(merged, i, "home") = {} =>
                      merged[i].home_last10_wins = Half /\ kept
                /\ GroupBefore(merged, i, "away") = {} =>
                      merged[i].away_last10_wins = Half /\ kept

\* C23: in every trainer run and for every family it trains, train_model
\* fits (its training part is not empty) only on a frame of at least the
\* minimum number of rows.
C23_NoFitBelowThreshold ==
    (pc = "split" /\ train_data # << >>) => Len(model_data) >= MinSamples

(***************************************************************************)
(* SpecTables: the scripts that write derived tables (the nba_api fetcher, *)
(* the V1 and V2 predictors) and the rating backfill, run one after        *)
(* another in any order.                                                   *)
(***************************************************************************)
\* bound on the number of script runs
MaxWrites == 2

InitTables ==
    /\ games \in {[i \in 1..2 |->
                     ("elo_home_before" :> NaN) @@ ("elo_away_before" :> NaN)
                       @@ ("elo_home_after" :> NaN) @@ ("elo_away_after" :> NaN)
                       @@ GameRecord(i, sh[i], <<100, 90>>)] :
                  sh \in [1..2 -> GameShapes]}
    /\ odds = << >>
    /\ trainer = "none"
    /\ pc = "idle"
    /\ merged = << >>
    /\ model_data = << >>
    /\ train_data = << >>
    /\ test_data = << >>
    /\ TablesIdle
    /\ ResolveIdle
    /\ StoreIdle
    /\ ServiceIdle
    /\ OddsIdle
    /\ CliIdle

\* save_to_db(games_df, season_year) of the fetcher, on what process_games
\* returned for one season: at most one row per GAME_ID, every row of
\* season season_year
save_to_db ==
    /\ saved.n < MaxWrites
    /\ \E season_year \in {2024, 2025}, ids \in SUBSET {1, 2} :
          LET games_df == SubSeqOf([k \in 1..2 |->
                                      [game_id |-> <<season_year, k>>,
                                       season |-> season_year, home_score |-> 100]],
                                   ids)
              OtherSeason(r) == r.season # season_year
          IN  /\ db' = [db EXCEPT !.nba_api_games = SelectSeq(@, OtherSeason) \o games_df]
              /\ saved' = [n |-> saved.n + 1, op |-> "save_to_db", key |-> season_year,
                           batch |-> games_df, before |-> db]
    /\ UNCHANGED <<resolveVars, pipeVars, storeVars, serviceVars, oddsVars, cliVars>>

\* save_predictions(predictions_df) at the end of predict() of predictor
\* ver, on the rows predict() scored
predictor_save_predictions(ver) ==
    /\ saved.n < MaxWrites
    /\ \E ids \in SUBSET {1, 2} :
          LET p == 60000
              predictions_df ==
                  SubSeqOf([k \in 1..2 |->
                              [game_id |-> k,
                               predicted_winner |-> Name("los angeles lakers"),
                               home_win_prob |-> p, confidence |-> confidence_of(p)]],
                           ids)
          IN  /\ db' \in save_predictions(ver, db, predictions_df)
              /\ saved' = [n |-> saved.n + 1, op |-> ver, key |-> 0,
                           batch |-> predictions_df, before |-> db]
    /\ UNCHANGED <<resolveVars, pipeVars, storeVars, serviceVars, oddsVars, cliVars>>

NBAPredictor_save_predictions == predictor_save_predictions("V1")

NBAPredictorV2_save_predictions == predictor_save_predictions("V2")

\* import-elo-complete.py on a rating file df_elo: the staging table is
\* re-created from the rating records of seasons 2016-2025, then
\* UPDATE github_games ... FROM elo_staging.  A game record that several
\* staging rows match is updated from one of them; which one is not fixed.
import_elo_complete ==
    /\ saved.n < MaxWrites
    /\ \E keep \in SUBSET (1..4) :
          LET team_full(abbr) ==
                  IF abbr \in DOMAIN elo_team_map THEN elo_team_map[abbr]
                  ELSE Str("", "lower", FALSE)
              rating(d, y, t1, t2) ==
                  [date |-> d, season |-> y, team1 |-> t1, team2 |-> t2,
                   home_team_full |-> team_full(t1), away_team_full |-> team_full(t2),
                   elo1_pre |-> 1500 + d, elo2_pre |-> 1450 + d,
                   elo1_post |-> 1510 + d, elo2_post |-> 1440 + d]
              df_elo == SubSeqOf(<<rating(1, 2020, Abbr("lal"), Abbr("bos")),
                                   rating(2, 2020, Abbr("lal"), Abbr("bos")),
                                   rating(2, 2020, Abbr("bos"), Abbr("lal")),
                                   rating(1, 2015, Abbr("lal"), Abbr("bos"))>>, keep)
              InSeasons(e) == e.season >= 2016 /\ e.season <= 2025
              staging == SelectSeq(df_elo, InSeasons)
              Matches(g, e) ==
                  /\ g.season = e.season
                  /\ g.season >= 2016 /\ g.season <= 2025
                  /\ \/ /\ Lower(Strip(g.home_team)) = Lower(Strip(e.home_team_full))
                        /\ Lower(Strip(g.away_team)) = Lower(Strip(e.away_team_full))
                     \/ /\ g.home_team = e.team1
                        /\ g.away_team = e.team2
              matching(g) == {k \in DOMAIN staging : Matches(g, staging[k])}
              updated(g, e) ==
                  ("elo_home_before" :> e.elo1_pre) @@ ("elo_home_after" :> e.elo1_post)
                    @@ ("elo_away_before" :> e.elo2_pre) @@ ("elo_away_after" :> e.elo2_post)
                    @@ g
          IN  /\ \E pick \in [DOMAIN games -> DOMAIN staging \cup {0}] :
                    /\ \A i \in DOMAIN games :
                          IF matching(games[i]) = {} THEN pick[i] = 0
                          ELSE pick[i] \in matching(games[i])
                    /\ games' = [i \in DOMAIN games |->
                                   IF pick[i] = 0 THEN games[i]
                                   ELSE updated(games[i], staging[pick[i]])]
              /\ db' = [db EXCEPT !.elo_staging = staging]
              /\ saved' = [n |-> saved.n + 1, op |-> "import_elo", key |-> 0,
                           batch |-> df_elo, before |-> games]
    /\ UNCHANGED <<odds, trainer, pc, merged, model_data, train_data, test_data,
                   resolveVars, storeVars, serviceVars, oddsVars, cliVars>>

NextTables ==
    \/ save_to_db
    \/ NBAPredictor_save_predictions
    \/ NBAPredictorV2_save_predictions
    \/ import_elo_complete

SpecTables == InitTables /\ [][NextTables]_vars

\* C24: after a logical batch is persisted (save_to_db for one season,
\* save_predictions of V1 and V2 for one prediction run) the table holds
\* exactly the rows of that batch for that key, and the rows of other keys
\* are as they were.
C24_ReplaceForKey ==
    /\ saved.op = "save_to_db" =>
          LET ThisSeason(r) == r.season = saved.key
              OtherSeason(r) == r.season # saved.key
          IN  /\ SelectSeq(db.nba_api_games, ThisSeason) = saved.batch
              /\ SelectSeq(db.nba_api_games, OtherSeason)
                   = SelectSeq(saved.before.nba_api_games, OtherSeason)
    /\ saved.op = "V1" => db.predictions = saved.batch
    /\ saved.op = "V2" => db.predictions_v2 = saved.batch

\* C25: the ratings the backfill wrote to a game record are those of the
\* rating record of that same game (same season, same home and away team,
\* same date), and game records are only enriched: none is inserted or
\* deleted and no other field changes.
C25_BackfillAlignedByDate ==
    saved.op = "import_elo" =>
        /\ DOMAIN games = DOMAIN saved.before
        /\ \A i \in DOMAIN games :
              LET g == games[i]
                  Other == DOMAIN g \ {"elo_home_before", "elo_home_after",
                                       "elo_away_before", "elo_away_after"}
              IN  /\ \A f \in Other : g[f] = saved.before[i][f]
                  /\ g # saved.before[i] =>
                        \E k \in DOMAIN saved.batch :
                            LET e == saved.batch[k]
                            IN  /\ e.season = g.season
                                /\ e.date = g.date
                                /\ Canonical(e.team1) = Canonical(g.home_team)
                                /\ Canonical(e.team2) = Canonical(g.away_team)
                                /\ g.elo_home_before = e.elo1_pre
                                /\ g.elo_away_before = e.elo2_pre
                                /\ g.elo_home_after = e.elo1_post
                                /\ g.elo_away_after = e.elo2_post

\* C30: an abbreviation present both in TEAM_MAPPING (table team_mapping)
\* and in TEAM_MAP (the rating backfill) resolves to the same full name in
\* both, each table resolving it to the entry that remains after loading.
C30_AliasTablesAgree ==
    LET abbr == Upper(Strip(raw_token))
    IN  (abbr \in DOMAIN team_mapping_table /\ abbr \in DOMAIN elo_team_map) =>
            team_mapping_table[abbr] = elo_team_map[abbr]

\* C26: for every store training runs can leave (also between the two dumps
\* of a run, or after a crash between them), the classifier and the scaler
\* a loader holds (load_models, load_model_and_scaler,
\* NBAPredictorV3.load_model) have the same family and the same creation
\* timestamp.
C26_LoadedPairIsOneArtifact ==
    LET OnePair(m, s) == m.path.fam = s.path.fam /\ m.path.ts = s.path.ts
    IN  /\ \A t \in DOMAIN MODELS : OnePair(MODELS[t], SCALERS[t])
        /\ bench.status = "loaded" => OnePair(bench.model, bench.scaler)
        /\ predictor.status = "loaded" => OnePair(predictor.model, predictor.scaler)

\* C27: for any mix of V1, V2, V3-global and V3-2025 artifacts in the models
\* directory, the classifier and the scaler a predictor's load_model selects
\* (NBAPredictor, NBAPredictorV2, NBAPredictorV3 without fallback) were
\* saved by the trainer of its own version and family.
C27_SelectionIsFamilyScoped ==
    cli.ver # "none" =>
        LET loaded == cli_load_model(cli.ver, cli.model_type, store)
            Own(p) == IF cli.ver = "V1" THEN p.ver = "v1"
                      ELSE IF cli.ver = "V2" THEN p.ver = "v2"
                      ELSE p.ver = "v3" /\ p.fam = cli.model_type
            fallback == cli.ver = "V3" /\ glob_v3(store, "model", cli.model_type) = {}
        IN  (loaded.status = "loaded" /\ ~fallback) =>
                Own(loaded.model.path) /\ Own(loaded.scaler.path)

\* C28: in NBAPredictorV3.predict the season_norm feature is computed with
\* the normalisation of the family whose artifact is loaded,
\* (season - 2010) / 15 for 'global' and (season - 2019) / 4 for '2025',
\* also when load_model fell back from the requested family to 'global'.
\* (season_norm is held in units of 1 / 60.)
C28_SeasonNormOfLoadedFamily ==
    (cli.ver = "V3" /\ X # << >>) =>
        LET loaded == cli_load_model("V3", cli.model_type, store)
            expected == IF loaded.model.path.fam = "2025"
                        THEN ((2025 - 2019) * 60) \div 4
                        ELSE ((2025 - 2010) * 60) \div 15
        IN  \A i \in DOMAIN X.rows : column(X, i, "season_norm") = expected

\* C29: the 'model_file' the benchmark reports names the classifier file
\* that produced the reported predictions, whatever a training run persists
\* while the benchmark is running.
C29_ReportedFileIsLoadedFile ==
    bench.model_file # << >> => bench.model_file = bench.model.path

====
